---- MODULE Spec2Model ----
(***************************************************************************)
(* The account store of the authenticator (hook useAccounts), the bundle   *)
(* import/export of SettingsMenu, the handlers of the Index page that call *)
(* into the store, the parser and the validator of otpauth-parser, and the *)
(* hook useTOTP that refreshes the code and the countdown of a card.       *)
(*                                                                         *)
(* JavaScript strings are sequences of one-character strings.  A value     *)
(* that may be undefined is a sequence of length at most one: <<>> is      *)
(* undefined and <<v>> is the value v.  A JSON document is the value tree  *)
(* it denotes, every node tagged with its JSON type.                       *)
(***************************************************************************)
EXTENDS Integers, Sequences, FiniteSets, TLC

VARIABLES
    accounts,      \* useAccounts: the React state `accounts` of the last render
    isLoading,     \* useAccounts: the React state `isLoading`
    storage,       \* localStorage[STORAGE_KEY]
    uuids,         \* number of crypto.randomUUID() results handed out so far
    now,           \* what Date.now() returns, in milliseconds; the handlers of the
                   \* store read it for the createdAt stamp only, and it stands
                   \* still except where the refresh of a displayed code is modelled
    importing,     \* the handleImport call suspended at `await file.text()`, if any
    scanning,      \* the scanner session started by startScanning, if any
    last,          \* history: the handler that completed last, its input and outcome
    parseCall,     \* the last direct call of parseOTPAuthURI: its argument and result
    secretCall,    \* the last direct call of validateSecret: its argument and result
    card           \* useTOTP of one AccountCard: the account it renders, the React
                   \* states `code` and `timeLeft`, and the intervals set and not cleared

vars == <<accounts, isLoading, storage, uuids, now, importing, scanning, last, parseCall,
          secretCall, card>>

(***************************************************************************)
(* Bounds of the model.                                                    *)
(***************************************************************************)
MaxIds == 2        \* crypto.randomUUID() is called at most this often
MaxAccounts == 2   \* direct addAccount and importAccounts calls keep the list within this length
MaxPathLen == 3    \* the decoded path of a parsed URI has at most this many characters

(***************************************************************************)
(* Optional values.                                                        *)
(***************************************************************************)
Undefined == <<>>
Some(v) == <<v>>
IsDefined(o) == Len(o) = 1
Get(o) == o[1]

(***************************************************************************)
(* Helpers on sequences.                                                   *)
(***************************************************************************)
Range(s) == {s[i] : i \in 1..Len(s)}

RECURSIVE SeqsUpTo(_, _)
SeqsUpTo(S, n) ==
    IF n = 0 THEN {<<>>}
    ELSE LET shorter == SeqsUpTo(S, n - 1)
         IN  shorter \cup {Append(s, x) : s \in {t \in shorter : Len(t) = n - 1}, x \in S}

\* [i \in 1..n |-> c]: the string made of n copies of the character c
Repeat(c, n) == [i \in 1..n |-> c]

(***************************************************************************)
(* JavaScript strings used by the model.                                   *)
(***************************************************************************)
SHA1 == <<"S", "H", "A", "1">>
SHA256 == <<"S", "H", "A", "2", "5", "6">>
SHA512 == <<"S", "H", "A", "5", "1", "2">>
MD5 == <<"M", "D", "5">>

LowerChars == <<"a", "b", "c", "d", "e", "f", "g", "h", "i", "j", "k", "l", "m",
                "n", "o", "p", "q", "r", "s", "t", "u", "v", "w", "x", "y", "z">>
UpperChars == <<"A", "B", "C", "D", "E", "F", "G", "H", "I", "J", "K", "L", "M",
                "N", "O", "P", "Q", "R", "S", "T", "U", "V", "W", "X", "Y", "Z">>
DigitChars == <<"0", "1", "2", "3", "4", "5", "6", "7", "8", "9">>
WhiteSpace == {" ", "\t", "\n"}

\* String.prototype.toUpperCase
toUpperCase(s) ==
    [i \in 1..Len(s) |->
        IF \E k \in 1..26 : LowerChars[k] = s[i]
        THEN UpperChars[CHOOSE k \in 1..26 : LowerChars[k] = s[i]]
        ELSE s[i]]

\* s.replace(/\s/g, '')
RECURSIVE stripWhitespace(_)
stripWhitespace(s) ==
    IF s = <<>> THEN <<>>
    ELSE IF Head(s) \in WhiteSpace THEN stripWhitespace(Tail(s))
    ELSE <<Head(s)>> \o stripWhitespace(Tail(s))

\* String.prototype.trim
RECURSIVE trimStart(_)
trimStart(s) ==
    IF s # <<>> /\ Head(s) \in WhiteSpace THEN trimStart(Tail(s)) ELSE s

RECURSIVE trimEnd(_)
trimEnd(s) ==
    IF s # <<>> /\ s[Len(s)] \in WhiteSpace THEN trimEnd(SubSeq(s, 1, Len(s) - 1)) ELSE s

trim(s) == trimEnd(trimStart(s))

(***************************************************************************)
(* JavaScript numbers as the store can hold them: a finite number, NaN     *)
(* (parseInt of a non-number) or null (what JSON.stringify writes for NaN  *)
(* and JSON.parse reads back).                                             *)
(***************************************************************************)
Num(n) == [kind |-> "number", n |-> n]
NaN == [kind |-> "NaN", n |-> 0]
Null == [kind |-> "null", n |-> 0]

(***************************************************************************)
(* JSON documents.                                                         *)
(***************************************************************************)
JNum(n) == [t |-> "number", n |-> n]
JStr(s) == [t |-> "string", s |-> s]
JUuid(u) == [t |-> "string", uuid |-> u]     \* the string form of an account id
JNull == [t |-> "null"]
JArr(a) == [t |-> "array", a |-> a]
JObj(o) == [t |-> "object", o |-> o]

\* JSON.stringify of a number: NaN is written as null
stringifyNumber(v) == IF v.kind = "number" THEN JNum(v.n) ELSE JNull

\* JSON.parse of a number or null
parseNumber(j) == IF j.t = "number" THEN Num(j.n) ELSE Null

AccountKeys == {"id", "issuer", "label", "secret", "algorithm", "digits", "period",
                "createdAt"}

\* JSON.stringify of one Account: a key whose value is undefined is left out
stringifyAccount(acc) ==
    LET keys == AccountKeys \cup (IF IsDefined(acc.backupCodes) THEN {"backupCodes"} ELSE {})
    IN  JObj([k \in keys |->
            CASE k = "id" -> JUuid(acc.id)
              [] k = "issuer" -> JStr(acc.issuer)
              [] k = "label" -> JStr(acc.label)
              [] k = "secret" -> JStr(acc.secret)
              [] k = "algorithm" -> JStr(acc.algorithm)
              [] k = "digits" -> stringifyNumber(acc.digits)
              [] k = "period" -> stringifyNumber(acc.period)
              [] k = "createdAt" -> JNum(acc.createdAt)
              [] k = "backupCodes" ->
                    JArr([i \in 1..Len(Get(acc.backupCodes)) |-> JStr(Get(acc.backupCodes)[i])])])

\* JSON.stringify(newAccounts)
stringify(accs) == JArr([i \in 1..Len(accs) |-> stringifyAccount(accs[i])])

\* JSON.parse of one stored Account object
parseAccount(j) ==
    [id |-> j.o["id"].uuid,
     issuer |-> j.o["issuer"].s,
     label |-> j.o["label"].s,
     secret |-> j.o["secret"].s,
     algorithm |-> j.o["algorithm"].s,
     digits |-> parseNumber(j.o["digits"]),
     period |-> parseNumber(j.o["period"]),
     createdAt |-> j.o["createdAt"].n,
     backupCodes |->
        IF "backupCodes" \in DOMAIN j.o
        THEN Some([i \in 1..Len(j.o["backupCodes"].a) |-> j.o["backupCodes"].a[i].s])
        ELSE Undefined]

\* JSON.parse(stored) for a snapshot this program wrote
parse(j) == [i \in 1..Len(j.a) |-> parseAccount(j.a[i])]

(***************************************************************************)
(* SettingsMenu: the zod schemas of a backup bundle.                       *)
(***************************************************************************)
MaxIssuerLen == 100
MaxLabelLen == 200
MaxSecretLen == 500
MaxBackupCodeLen == 100
MinDigits == 1
MaxDigits == 10
MinPeriod == 1
MaxPeriod == 300
BundleVersion == 1

Algorithms == {SHA1, SHA256, SHA512}

\* the length of a JSON string; an account id is an opaque string
JLen(j) == IF "s" \in DOMAIN j THEN Len(j.s) ELSE 0

\* z.string() and z.string().max(n)
zString(o, k) == k \in DOMAIN o /\ o[k].t = "string"
zStringMax(o, k, n) == zString(o, k) /\ JLen(o[k]) <= n

\* z.number() and z.number().min(lo).max(hi)
zNumber(o, k) == k \in DOMAIN o /\ o[k].t = "number"
zNumberRange(o, k, lo, hi) == zNumber(o, k) /\ o[k].n >= lo /\ o[k].n <= hi

\* z.array(z.string().max(100)).optional()
zBackupCodes(o) ==
    "backupCodes" \in DOMAIN o =>
        /\ o["backupCodes"].t = "array"
        /\ \A i \in 1..Len(o["backupCodes"].a) :
              /\ o["backupCodes"].a[i].t = "string"
              /\ JLen(o["backupCodes"].a[i]) <= MaxBackupCodeLen

\* accountSchema with the range of digits left out: z.number() for digits
accountSchemaAnyDigits(j) ==
    /\ j.t = "object"
    /\ zString(j.o, "id")
    /\ zStringMax(j.o, "issuer", MaxIssuerLen)
    /\ zStringMax(j.o, "label", MaxLabelLen)
    /\ zStringMax(j.o, "secret", MaxSecretLen)
    /\ zString(j.o, "algorithm") /\ j.o["algorithm"].s \in Algorithms
    /\ zNumber(j.o, "digits")
    /\ zNumberRange(j.o, "period", MinPeriod, MaxPeriod)
    /\ zNumber(j.o, "createdAt")
    /\ zBackupCodes(j.o)

accountSchema(j) ==
    /\ j.t = "object"
    /\ zString(j.o, "id")
    /\ zStringMax(j.o, "issuer", MaxIssuerLen)
    /\ zStringMax(j.o, "label", MaxLabelLen)
    /\ zStringMax(j.o, "secret", MaxSecretLen)
    /\ zString(j.o, "algorithm") /\ j.o["algorithm"].s \in Algorithms
    /\ zNumberRange(j.o, "digits", MinDigits, MaxDigits)
    /\ zNumberRange(j.o, "period", MinPeriod, MaxPeriod)
    /\ zNumber(j.o, "createdAt")
    /\ zBackupCodes(j.o)

\* backupSchema with z.number() for version in place of z.literal(1)
backupSchemaAnyVersion(j) ==
    /\ j.t = "object"
    /\ zNumber(j.o, "version")
    /\ zNumber(j.o, "exportedAt")
    /\ "accounts" \in DOMAIN j.o /\ j.o["accounts"].t = "array"
    /\ \A i \in 1..Len(j.o["accounts"].a) : accountSchema(j.o["accounts"].a[i])

backupSchema(j) ==
    /\ j.t = "object"
    /\ zNumber(j.o, "version") /\ j.o["version"].n = BundleVersion
    /\ zNumber(j.o, "exportedAt")
    /\ "accounts" \in DOMAIN j.o /\ j.o["accounts"].t = "array"
    /\ \A i \in 1..Len(j.o["accounts"].a) : accountSchema(j.o["accounts"].a[i])

\* result.data.accounts[i].backupCodes
bundleBackupCodes(o) ==
    IF "backupCodes" \in DOMAIN o
    THEN Some([i \in 1..Len(o["backupCodes"].a) |-> o["backupCodes"].a[i].s])
    ELSE Undefined

\* the imported account keeping the id it has in the file
importedAccountKeepsId(j, uuid, t) ==
    [issuer |-> j.o["issuer"].s,
     label |-> j.o["label"].s,
     secret |-> j.o["secret"].s,
     algorithm |-> j.o["algorithm"].s,
     digits |-> Num(j.o["digits"].n),
     period |-> Num(j.o["period"].n),
     backupCodes |-> bundleBackupCodes(j.o),
     id |-> j.o["id"].uuid,
     createdAt |-> t]

\* handleImport: the Account built from the i-th account of a validated bundle
importedAccount(j, uuid, t) ==
    [issuer |-> j.o["issuer"].s,
     label |-> j.o["label"].s,
     secret |-> j.o["secret"].s,
     algorithm |-> j.o["algorithm"].s,
     digits |-> Num(j.o["digits"].n),
     period |-> Num(j.o["period"].n),
     backupCodes |-> bundleBackupCodes(j.o),
     id |-> uuid,
     createdAt |-> t]

\* handleImport: result.data.accounts.map(...), the k-th account taking the
\* k-th crypto.randomUUID() drawn from `issued` on
importedAccounts(bundle, issued, t) ==
    [k \in 1..Len(bundle.o["accounts"].a) |->
        importedAccount(bundle.o["accounts"].a[k], issued + k, t)]

\* handleExport: the text JSON.stringify(backup, null, 2) puts into the file,
\* exportedAt being Date.now() = t; nothing is written for an empty list
handleExport(accs, t) ==
    IF accs = <<>> THEN Undefined
    ELSE Some(JObj([k \in {"version", "exportedAt", "accounts"} |->
                      CASE k = "version" -> JNum(BundleVersion)
                        [] k = "exportedAt" -> JNum(t)
                        [] k = "accounts" -> stringify(accs)]))

(***************************************************************************)
(* otpauth-parser: validateSecret and parseOTPAuthURI.                     *)
(***************************************************************************)
MinSecretLen == 16

Base32Chars == Range(UpperChars) \cup {"2", "3", "4", "5", "6", "7"}

\* /^[A-Z2-7]+=*$/.test(s)
matchesBase32(s) ==
    \E k \in 1..Len(s) :
        /\ \A i \in 1..k : s[i] \in Base32Chars
        /\ \A i \in (k + 1)..Len(s) : s[i] = "="

\* validateSecret without the test of the length
validateSecretAnyLength(secret) == matchesBase32(toUpperCase(stripWhitespace(secret)))

validateSecret(secret) ==
    LET cleanSecret == toUpperCase(stripWhitespace(secret))
    IN  matchesBase32(cleanSecret) /\ Len(cleanSecret) >= MinSecretLen

\* the value of a decimal digit character
digitValue(c) == (CHOOSE k \in 1..10 : DigitChars[k] = c) - 1

IsDigit(c) == \E k \in 1..10 : DigitChars[k] = c

\* the value of the longest prefix of decimal digits of s, starting from acc
RECURSIVE digitsPrefix(_, _)
digitsPrefix(s, acc) ==
    IF s = <<>> \/ ~IsDigit(Head(s)) THEN acc
    ELSE digitsPrefix(Tail(s), 10 * acc + digitValue(Head(s)))

\* parseInt(s, 10): leading white space and one sign are skipped, then the
\* longest run of digits is read; NaN when there is no digit to read
parseInt(s) ==
    LET t == trimStart(s)
        signed == t # <<>> /\ Head(t) \in {"+", "-"}
        body == IF signed THEN Tail(t) ELSE t
        magnitude == digitsPrefix(body, 0)
    IN  IF body = <<>> \/ ~IsDigit(Head(body)) THEN NaN
        ELSE IF signed /\ Head(t) = "-" THEN Num(0 - magnitude)
        ELSE Num(magnitude)

\* s.lastIndexOf(c)
lastIndexOf(s, c) ==
    IF \E i \in 1..Len(s) : s[i] = c
    THEN CHOOSE i \in 1..Len(s) : s[i] = c /\ \A j \in (i + 1)..Len(s) : s[j] # c
    ELSE 0

\* s.indexOf(c), 0 when c does not occur (positions count from 1)
indexOf(s, c) ==
    IF \E i \in 1..Len(s) : s[i] = c
    THEN CHOOSE i \in 1..Len(s) : s[i] = c /\ \A j \in 1..(i - 1) : s[j] # c
    ELSE 0

\* decodeURIComponent: "%3A" is ":" and "%20" is " "; any other "%" makes it throw
RECURSIVE decodeURIComponent(_)
decodeURIComponent(s) ==
    IF s = <<>> THEN Some(<<>>)
    ELSE IF Head(s) # "%"
         THEN LET rest == decodeURIComponent(Tail(s))
              IN  IF IsDefined(rest) THEN Some(<<Head(s)>> \o Get(rest)) ELSE Undefined
    ELSE IF Len(s) >= 3 /\ SubSeq(s, 2, 3) \in {<<"3", "A">>, <<"2", "0">>}
         THEN LET rest == decodeURIComponent(SubSeq(s, 4, Len(s)))
                  c == IF SubSeq(s, 2, 3) = <<"3", "A">> THEN ":" ELSE " "
              IN  IF IsDefined(rest) THEN Some(<<c>> \o Get(rest)) ELSE Undefined
    ELSE Undefined

\* url.searchParams.has(name) and url.searchParams.get(name): the first pair
\* with that name; get is undefined (null) when there is none
paramsHas(params, name) == \E i \in 1..Len(params) : params[i][1] = name

paramsGet(params, name) ==
    IF paramsHas(params, name)
    THEN Some(params[CHOOSE i \in 1..Len(params) :
                  params[i][1] = name /\ \A j \in 1..(i - 1) : params[j][1] # name][2])
    ELSE Undefined

\* params.get(name) || dflt: an absent and an empty value both give dflt
getOr(params, name, dflt) ==
    LET v == paramsGet(params, name)
    IN  IF IsDefined(v) /\ Get(v) # <<>> THEN Get(v) ELSE dflt

OtpauthProtocol == <<"o", "t", "p", "a", "u", "t", "h", ":">>
\* the host of counter-based credentials
HotpHost == <<"h", "o", "t", "p">>

TotpHost == <<"t", "o", "t", "p">>
Unknown == <<"U", "n", "k", "n", "o", "w", "n">>
\* another default for digits
DefaultDigitsEight == <<"8">>

DefaultDigits == <<"6">>
DefaultPeriod == <<"3", "0">>

\* parseOTPAuthURI on what `new URL(uri)` gives: url.ok is false when the URL
\* constructor throws.  The result is undefined where the function returns null.
parseOTPAuthURI(url) ==
    IF ~url.ok \/ url.protocol # OtpauthProtocol \/ url.host # TotpHost THEN Undefined
    ELSE
    LET decoded == decodeURIComponent(IF url.pathname = <<>> THEN <<>> ELSE Tail(url.pathname))
        path == Get(decoded)
        colon == indexOf(path, ":")
        pathIssuer == IF colon > 0 THEN SubSeq(path, 1, colon - 1) ELSE <<>>
        label == IF colon > 0 THEN SubSeq(path, colon + 1, Len(path)) ELSE path
        secret == paramsGet(url.params, <<"s", "e", "c", "r", "e", "t">>)
        issuer == IF paramsHas(url.params, <<"i", "s", "s", "u", "e", "r">>)
                  THEN getOr(url.params, <<"i", "s", "s", "u", "e", "r">>, pathIssuer)
                  ELSE pathIssuer
        algorithm == LET a == paramsGet(url.params,
                                  <<"a", "l", "g", "o", "r", "i", "t", "h", "m">>)
                     IN  IF IsDefined(a) /\ Get(a) # <<>> THEN toUpperCase(Get(a)) ELSE SHA1
    IN  IF ~IsDefined(decoded) THEN Undefined
        ELSE IF ~IsDefined(secret) \/ Get(secret) = <<>> THEN Undefined
        ELSE Some([issuer |-> IF issuer # <<>> THEN issuer ELSE Unknown,
                   label |-> label,
                   secret |-> Get(secret),
                   algorithm |-> algorithm,
                   digits |-> parseInt(getOr(url.params, <<"d", "i", "g", "i", "t", "s">>,
                                             DefaultDigits)),
                   period |-> parseInt(getOr(url.params, <<"p", "e", "r", "i", "o", "d">>,
                                             DefaultPeriod))])

(***************************************************************************)
(* Index: the schema of the manual-entry form.                             *)
(***************************************************************************)
MaxFormIssuerLen == 50
MaxFormLabelLen == 100

manualEntrySchema(form) ==
    /\ Len(trim(form.issuer)) >= 1 /\ Len(trim(form.issuer)) <= MaxFormIssuerLen
    /\ Len(trim(form.label)) >= 1 /\ Len(trim(form.label)) <= MaxFormLabelLen
    /\ Len(trim(form.secret)) >= 1

(***************************************************************************)
(* useTOTP: the code and the countdown of one displayed account.  The      *)
(* digits of a code are not computed: a code is the tuple of what the      *)
(* library computes it from (key, algorithm, digits, counter).             *)
(***************************************************************************)
Second == 1000
InitialTimeLeft == 30

\* Math.floor(t / 1000) for t = Date.now()
seconds(t) == t \div Second

\* the React state `code`: '' before the first refresh, '------', or a code
NoCode == [shown |-> "", key |-> <<>>, algorithm |-> <<>>, digits |-> Null, counter |-> 0]
Placeholder ==
    [shown |-> "------", key |-> <<>>, algorithm |-> <<>>, digits |-> Null, counter |-> 0]
Generated(key, algorithm, digits, counter) ==
    [shown |-> "digits", key |-> key, algorithm |-> algorithm, digits |-> digits,
     counter |-> counter]

\* a string without its trailing "=" characters
RECURSIVE withoutPadding(_)
withoutPadding(str) ==
    IF str # <<>> /\ str[Len(str)] = "="
    THEN withoutPadding(SubSeq(str, 1, Len(str) - 1))
    ELSE str

\* OTPAuth.Secret.fromBase32(str): the key, or undefined where it throws (a
\* character outside the alphabet before the padding)
fromBase32(str) ==
    LET body == withoutPadding(str)
    IN  IF \A i \in 1..Len(body) : body[i] \in Base32Chars THEN Some(body) ELSE Undefined

\* generateCode with a decoder that skips the characters it does not know
generateCodeLenient(account, t) ==
    LET clean == toUpperCase(stripWhitespace(account.secret))
    IN  Generated(SelectSeq(clean, LAMBDA c : c \in Base32Chars), account.algorithm,
                  account.digits, seconds(t) \div account.period.n)

\* generateCode of an account whose period is a positive number, totp.generate()
\* reading Date.now() = t: the code of counter floor(t / 1000 / period), or
\* '------' from the catch block (each intermediate string is bound by a set
\* constructor, which evaluates it once)
generateCode(account, t) ==
    CHOOSE code \in
        {IF IsDefined(key)
         THEN Generated(Get(key), account.algorithm, account.digits,
                        seconds(t) \div account.period.n)
         ELSE Placeholder :
            key \in {fromBase32(clean) :
                        clean \in {toUpperCase(stripped) :
                                      stripped \in {stripWhitespace(account.secret)}}}} :
        TRUE

\* the countdown counted from zero: period - 1 - (now % period)
remainingFromZero(period, nowSeconds) ==
    IF period.kind = "number" /\ period.n > 0
    THEN Num(period.n - 1 - (nowSeconds % period.n))
    ELSE NaN

\* account.period - (now % account.period); x % 0 and arithmetic on NaN are NaN
remaining(period, nowSeconds) ==
    IF period.kind = "number" /\ period.n > 0
    THEN Num(period.n - (nowSeconds % period.n))
    ELSE IF period.kind = "number" /\ period.n < 0
    THEN Num(period.n - (nowSeconds % (0 - period.n)))
    ELSE NaN

\* clearInterval leaving the interval set
clearIntervalKeeps(intervals, handle) == intervals

\* clearInterval(handle)
clearInterval(intervals, handle) == {i \in intervals : i.handle # handle}

\* the handle setInterval returns: one no interval still set has
newHandle(intervals) ==
    IF intervals = {} THEN 1
    ELSE 1 + (CHOOSE h \in {i.handle : i \in intervals} :
                \A i \in intervals : i.handle <= h)

\* useTOTP of a card that renders no account: useState('') and useState(30)
NoCard ==
    [account |-> Undefined, code |-> NoCode, timeLeft |-> Num(InitialTimeLeft),
     intervals |-> {}, cleanup |-> Undefined]

(***************************************************************************)
(* useAccounts: the store operations.  Each is a function of `accs`, the   *)
(* account list its closure captured at the render that created it, and    *)
(* gives the list it hands to saveAccounts.                                *)
(***************************************************************************)
\* { ...account, id: crypto.randomUUID(), createdAt: Date.now() }
newAccount(candidate, uuid, t) ==
    [issuer |-> candidate.issuer,
     label |-> candidate.label,
     secret |-> candidate.secret,
     algorithm |-> candidate.algorithm,
     digits |-> candidate.digits,
     period |-> candidate.period,
     backupCodes |-> Undefined,
     id |-> uuid,
     createdAt |-> t]

addAccount(accs, candidate, uuid, t) == Append(accs, newAccount(candidate, uuid, t))

\* the filter with its test inverted: accounts.filter(acc => acc.id === id)
removeAccountKeepsMatching(accs, id) == SelectSeq(accs, LAMBDA acc : acc.id = id)

removeAccount(accs, id) == SelectSeq(accs, LAMBDA acc : acc.id # id)

\* the spread in the other order: { ...updates, ...acc }
mergeKeepsOld(acc, updates) == acc

\* { ...acc, ...updates }: updates is a function from some of the keys of Account
merge(acc, updates) ==
    [k \in DOMAIN acc |-> IF k \in DOMAIN updates THEN updates[k] ELSE acc[k]]

\* the map without its test of the id
updateAccountAll(accs, id, updates) == [i \in 1..Len(accs) |-> merge(accs[i], updates)]

updateAccount(accs, id, updates) ==
    [i \in 1..Len(accs) |-> IF accs[i].id = id THEN merge(accs[i], updates) ELSE accs[i]]

\* the new codes put after the codes the account had:
\* { ...acc, backupCodes: [...(acc.backupCodes || []), ...codes] }
updateBackupCodesAppends(accs, id, codes) ==
    [i \in 1..Len(accs) |->
        IF accs[i].id = id
        THEN [accs[i] EXCEPT !.backupCodes =
                  Some((IF Len(accs[i].backupCodes) = 1 THEN accs[i].backupCodes[1] ELSE <<>>)
                       \o codes)]
        ELSE accs[i]]

updateBackupCodes(accs, id, codes) ==
    [i \in 1..Len(accs) |->
        IF accs[i].id = id THEN [accs[i] EXCEPT !.backupCodes = Some(codes)] ELSE accs[i]]

importAccounts(accs, newAccounts) == accs \o newAccounts

\* the list of the render handed to saveAccounts in place of []
clearAllAccountsKeepsList == accounts

clearAllAccounts == <<>>

\* the snapshot written from the list of the render, not from the new list
saveAccountsStale(newAccounts) ==
    /\ storage' = Some(stringify(accounts))
    /\ accounts' = newAccounts

\* saveAccounts(newAccounts): the snapshot is written whole, then the state is set
saveAccounts(newAccounts) ==
    /\ storage' = Some(stringify(newAccounts))
    /\ accounts' = newAccounts

(***************************************************************************)
(* Inputs the handlers are run on.                                         *)
(***************************************************************************)
Secret16 == <<"J", "B", "S", "W", "Y", "3", "D", "P", "E", "H", "P", "K", "3", "P", "X", "P">>
SecretTyped == <<"j", "b", "s", "w", " ", "y", "3", "d", "p", " ", "e", "h", "p", "k", " ",
                 "3", "p", "x", "p">>
Acme == <<"A", "c", "m", "e">>
Bob == <<"b", "o", "b">>
Git == <<"G", "i", "t">>
Code1 == <<"c", "o", "d", "e", "1">>
Code2 == <<"c", "o", "d", "e", "2">>

\* the manual-entry form: one that is accepted, one whose secret has a
\* character outside the alphabet, one without issuer
FormOk == [issuer |-> <<" ">> \o Git, label |-> Bob \o <<" ">>, secret |-> SecretTyped]

ManualForms ==
    {FormOk,
     [FormOk EXCEPT !.secret = [Secret16 EXCEPT ![1] = "1"]],
     [FormOk EXCEPT !.issuer = <<" ">>]}

\* what `new URL(data)` gives for the decoded text of a QR code
UrlOk ==
    [ok |-> TRUE, protocol |-> OtpauthProtocol, host |-> TotpHost,
     pathname |-> <<"/">> \o Acme \o <<":">> \o Bob,
     params |-> << <<(<<"s", "e", "c", "r", "e", "t">>), Secret16>>,
                   <<(<<"d", "i", "g", "i", "t", "s">>), (<<"8">>)>> >>]

\* otpauth://totp/bob?secret=jbsw+y3dp+ehpk+3pxp&algorithm=md5&digits=11&period=0
UrlLoose ==
    [ok |-> TRUE, protocol |-> OtpauthProtocol, host |-> TotpHost,
     pathname |-> <<"/">> \o Bob,
     params |-> << <<(<<"s", "e", "c", "r", "e", "t">>), SecretTyped>>,
                   <<(<<"a", "l", "g", "o", "r", "i", "t", "h", "m">>), (<<"m", "d", "5">>)>>,
                   <<(<<"d", "i", "g", "i", "t", "s">>), (<<"1", "1">>)>>,
                   <<(<<"p", "e", "r", "i", "o", "d">>), (<<"0">>)>> >>]

ScanUrls ==
    {UrlOk,
     UrlLoose,
     [UrlOk EXCEPT !.host = <<"h", "o", "t", "p">>]}

\* an account of another installation of the program
ForeignAccount ==
    [id |-> 0, issuer |-> Acme, label |-> Bob, secret |-> Secret16, algorithm |-> SHA1,
     digits |-> Num(6), period |-> Num(30), createdAt |-> 0,
     backupCodes |-> Undefined]

\* what localStorage can hold when the page is opened: nothing, text that is
\* not JSON, or a snapshot the program wrote
SyntaxError == [t |-> "SyntaxError"]

InitialStorage ==
    {Undefined, Some(SyntaxError), Some(stringify(<<>>))}

\* Accounts of a backup file.  A file written by another installation holds
\* ids this store never handed out (ForeignId); a file exported from this store
\* holds ids of its accounts (known).  No file holds an id the store hands out
\* after the file was chosen.
ForeignId == 0

FileAccount1 ==
    JObj([k \in AccountKeys \cup {"backupCodes"} |->
        CASE k = "id" -> JUuid(ForeignId)
          [] k = "issuer" -> JStr(Acme)
          [] k = "label" -> JStr(Bob)
          [] k = "secret" -> JStr(Secret16)
          [] k = "algorithm" -> JStr(SHA256)
          [] k = "digits" -> JNum(8)
          [] k = "period" -> JNum(60)
          [] k = "createdAt" -> JNum(0)
          [] k = "backupCodes" -> JArr(<<JStr(Code1)>>)])

FileAccount2(known) ==
    JObj([k \in AccountKeys |->
        CASE k = "id" -> JUuid(known)
          [] k = "issuer" -> JStr(Git)
          [] k = "label" -> JStr(Acme)
          [] k = "secret" -> JStr(Secret16)
          [] k = "algorithm" -> JStr(SHA512)
          [] k = "digits" -> JNum(MaxDigits)
          [] k = "period" -> JNum(MaxPeriod)
          [] k = "createdAt" -> JNum(0)])

With(j, k, v) == JObj([x \in DOMAIN j.o \cup {k} |-> IF x = k THEN v ELSE j.o[x]])
Without(j, k) == JObj([x \in DOMAIN j.o \ {k} |-> j.o[x]])

\* accounts the schema refuses
BadFileAccounts(known) ==
    {With(FileAccount2(known), "digits", JNum(MaxDigits + 1)),
     With(FileAccount2(known), "period", JNum(MinPeriod - 1)),
     With(FileAccount2(known), "algorithm", JStr(MD5)),
     With(FileAccount2(known), "issuer", JStr(Repeat("x", MaxIssuerLen + 1))),
     With(FileAccount2(known), "backupCodes",
          JArr(<<JStr(Repeat("x", MaxBackupCodeLen + 1))>>)),
     Without(FileAccount2(known), "secret")}

Bundle(accs) ==
    JObj([k \in {"version", "exportedAt", "accounts"} |->
        CASE k = "version" -> JNum(BundleVersion)
          [] k = "exportedAt" -> JNum(0)
          [] k = "accounts" -> JArr(accs)])

GoodBundles(known) ==
    {Bundle(<<>>), Bundle(<<FileAccount2(known)>>), Bundle(<<FileAccount1, FileAccount2(known)>>)}

BadAccountBundles(known) == {Bundle(<<FileAccount1, bad>>) : bad \in BadFileAccounts(known)}

BadVersionBundles(known) ==
    {With(Bundle(<<FileAccount2(known)>>), "version", v) : v \in {JNum(2), JStr(<<"1">>)}}
        \cup {Without(Bundle(<<FileAccount2(known)>>), "version")}

\* the text of the chosen file: undefined when it is not JSON at all
Files(known) ==
    {Undefined}
        \cup {Some(b) : b \in GoodBundles(known) \cup BadAccountBundles(known)
                                \cup BadVersionBundles(known)}
        \cup {Some(JNum(1))}

\* the set a file was drawn from
FileKind(file, known) ==
    CASE ~IsDefined(file) -> "notJson"
      [] IsDefined(file) /\ Get(file) \in GoodBundles(known) -> "good"
      [] IsDefined(file) /\ Get(file) \in BadAccountBundles(known) -> "badAccount"
      [] IsDefined(file) /\ Get(file) \in BadVersionBundles(known) -> "badVersion"
      [] OTHER -> "notBundle"

\* the account ids found in a file
FileIds(file) ==
    IF IsDefined(file) /\ Get(file).t = "object" /\ "accounts" \in DOMAIN Get(file).o
    THEN {Get(file).o["accounts"].a[i].o["id"].uuid :
            i \in 1..Len(Get(file).o["accounts"].a)}
    ELSE {}

\* codes typed into the backup-codes dialog
TypedCodes == {Code1 \o <<" ">>, <<"a", "b">>}

(***************************************************************************)
(* The state machine.                                                      *)
(***************************************************************************)
\* the ids of a list of accounts
IdsOf(accs) == {accs[i].id : i \in 1..Len(accs)}

\* the record kept of the handler that completed last: which one (op), whether it
\* reported success (ok), the kind of input it was given (kind), the account id it
\* was called for or created (id, NoId when there is none) and whether an id of
\* its input was the id of an account of the list the handler worked on (hit;
\* for clearAll, whether the list held an account)
NoId == -1

Done(op, ok, kind, id, hit) == [op |-> op, ok |-> ok, kind |-> kind, id |-> id, hit |-> hit]

NoCall == Done("none", TRUE, "none", NoId, FALSE)

Init ==
    /\ accounts = <<>>
    /\ isLoading = TRUE
    /\ storage \in InitialStorage
    /\ uuids = 0
    /\ now = 1
    /\ parseCall = Undefined
    /\ secretCall = Undefined
    /\ card = NoCard
    /\ importing = Undefined
    /\ scanning = Undefined
    /\ last = NoCall

\* the mount effect removing a snapshot that does not parse
LoadEffectDropsSnapshot ==
    /\ isLoading
    /\ accounts' = IF IsDefined(storage) /\ Get(storage) # SyntaxError
                   THEN parse(Get(storage))
                   ELSE accounts
    /\ storage' = IF storage = Some(SyntaxError) THEN Undefined ELSE storage
    /\ isLoading' = FALSE
    /\ last' = Done("load", TRUE, "none", NoId, FALSE)
    /\ UNCHANGED <<uuids, now, parseCall, secretCall, card, importing, scanning>>

\* useAccounts, the mount effect: read the snapshot; keep the empty list when
\* there is none or when it does not parse
LoadEffect ==
    /\ isLoading
    /\ accounts' = IF IsDefined(storage) /\ Get(storage) # SyntaxError
                   THEN parse(Get(storage))
                   ELSE accounts
    /\ isLoading' = FALSE
    /\ last' = Done("load", TRUE, "none", NoId, FALSE)
    /\ UNCHANGED <<storage, uuids, now, parseCall, secretCall, card, importing, scanning>>

\* the page is opened again: every component state is lost, the snapshot stays
Reload ==
    /\ ~isLoading
    /\ accounts' = <<>>
    /\ isLoading' = TRUE
    /\ importing' = Undefined
    /\ scanning' = Undefined
    /\ last' = NoCall
    /\ UNCHANGED <<storage, uuids, now, parseCall, secretCall, card>>

\* handleManualSubmit: the account handed to addAccount
formCandidate(form) ==
    [issuer |-> trim(form.issuer), label |-> trim(form.label),
     secret |-> toUpperCase(stripWhitespace(form.secret)), algorithm |-> SHA1,
     digits |-> Num(6), period |-> Num(30)]

\* Index.handleManualSubmit
ManualSubmit(form) ==
    LET cleanSecret == toUpperCase(stripWhitespace(form.secret))
        candidate == formCandidate(form)
    IN  /\ ~isLoading
        /\ scanning = Undefined
        /\ IF manualEntrySchema(form) /\ validateSecret(cleanSecret)
           THEN /\ uuids < MaxIds
                /\ saveAccounts(addAccount(accounts, candidate, uuids + 1, now))
                /\ uuids' = uuids + 1
                /\ last' = Done("manual", TRUE, "form", uuids + 1, FALSE)
           ELSE /\ last' = Done("manual", FALSE, "form", NoId, FALSE)
                /\ UNCHANGED <<accounts, storage, uuids>>
        /\ UNCHANGED <<isLoading, now, parseCall, secretCall, card, importing, scanning>>

\* QRScanner.startScanning: the success callback handed to the scanner keeps the
\* onScan of this render, and with it the addAccount and the accounts of this render.
\* The scanner lives in the scan tab of the Add dialog of Index; while it runs the
\* dialog is open, and the handlers of the page behind it and of the manual tab
\* are not reachable (they require scanning = Undefined).
StartScanning ==
    /\ ~isLoading
    /\ scanning = Undefined
    /\ scanning' = Some([accounts |-> accounts])
    /\ UNCHANGED <<accounts, isLoading, storage, uuids, now, parseCall, secretCall, card,
                   importing, last>>

\* QRScanner.stopScanning from the button or when the dialog closes
StopScanning ==
    /\ scanning # Undefined
    /\ scanning' = Undefined
    /\ UNCHANGED <<accounts, isLoading, storage, uuids, now, parseCall, secretCall, card,
                   importing, last>>

\* the scanner's success callback: onScan(decodedText), that is
\* Index.handleQRScan, then stopScanning()
ScanDecoded(url) ==
    LET closure == Get(scanning).accounts
        parsed == parseOTPAuthURI(url)
    IN  /\ scanning # Undefined
        /\ IF IsDefined(parsed)
           THEN /\ uuids < MaxIds
                /\ saveAccounts(addAccount(closure, Get(parsed), uuids + 1, now))
                /\ uuids' = uuids + 1
                /\ last' = Done("scan", TRUE, "url", uuids + 1, FALSE)
           ELSE /\ last' = Done("scan", FALSE, "url", NoId, FALSE)
                /\ UNCHANGED <<accounts, storage, uuids>>
        /\ scanning' = Undefined
        /\ UNCHANGED <<isLoading, now, parseCall, secretCall, card, importing>>

\* an id a file chosen now can hold: that of the first account, if there is one
KnownId(accs) == IF accs # <<>> THEN accs[1].id ELSE ForeignId

\* SettingsMenu.handleImport up to `await file.text()`: the call keeps the
\* onImportAccounts of the render in which the file was chosen.  At most one
\* call is kept suspended at a time.
ImportChosen ==
    /\ ~isLoading
    /\ scanning = Undefined
    /\ importing = Undefined
    /\ importing' = Some([accounts |-> accounts, known |-> KnownId(accounts)])
    /\ UNCHANGED <<accounts, isLoading, storage, uuids, now, parseCall, secretCall, card,
                   scanning, last>>

\* SettingsMenu.handleImport from `await file.text()` on, for a file of text `file`
ImportRead(file) ==
    LET closure == Get(importing).accounts
        known == Get(importing).known
        accepted == IsDefined(file) /\ backupSchema(Get(file))
        imported == importedAccounts(Get(file), uuids, now)
    IN  /\ importing # Undefined
        /\ IF accepted
           THEN /\ uuids + Len(imported) <= MaxIds
                /\ saveAccounts(importAccounts(closure, imported))
                /\ uuids' = uuids + Len(imported)
                /\ last' = Done("import", TRUE, FileKind(file, known), NoId,
                                FileIds(file) \cap IdsOf(accounts) # {})
           ELSE /\ last' = Done("import", FALSE, FileKind(file, known), NoId, FALSE)
                /\ UNCHANGED <<accounts, storage, uuids>>
        /\ importing' = Undefined
        /\ UNCHANGED <<isLoading, now, parseCall, secretCall, card, scanning>>

\* AccountCard.handleDelete of the i-th card
DeleteAccount(i) ==
    /\ ~isLoading
    /\ scanning = Undefined
    /\ i \in 1..Len(accounts)
    /\ saveAccounts(removeAccount(accounts, accounts[i].id))
    /\ last' = Done("remove", TRUE, "card", accounts[i].id, TRUE)
    /\ UNCHANGED <<isLoading, uuids, now, parseCall, secretCall, card, importing, scanning>>

(***************************************************************************)
(* BackupCodesDialog.                                                      *)
(***************************************************************************)
MinCodeLen == 4
MaxCodeLen == 50

backupCodeSchema(code) == Len(trim(code)) >= MinCodeLen /\ Len(trim(code)) <= MaxCodeLen

\* account.backupCodes || []
codesOf(acc) == IF IsDefined(acc.backupCodes) THEN Get(acc.backupCodes) ELSE <<>>

\* backupCodes.filter((_, i) => i !== index), positions counted from 1
withoutIndex(codes, index) ==
    [i \in 1..(Len(codes) - 1) |-> IF i < index THEN codes[i] ELSE codes[i + 1]]

\* BackupCodesDialog.handleAddCode in the dialog of the i-th card
AddBackupCode(i, newCode) ==
    /\ ~isLoading
    /\ scanning = Undefined
    /\ i \in 1..Len(accounts)
    /\ LET backupCodes == codesOf(accounts[i])
           trimmedCode == trim(newCode)
       IN  IF backupCodeSchema(newCode) /\ trimmedCode \notin Range(backupCodes)
           THEN /\ saveAccounts(updateBackupCodes(accounts, accounts[i].id,
                                                  Append(backupCodes, trimmedCode)))
                /\ last' = Done("addCode", TRUE, "code", accounts[i].id, TRUE)
           ELSE /\ last' = Done("addCode", FALSE, "code", accounts[i].id, TRUE)
                /\ UNCHANGED <<accounts, storage>>
    /\ UNCHANGED <<isLoading, uuids, now, parseCall, secretCall, card, importing, scanning>>

\* BackupCodesDialog.handleDeleteCode in the dialog of the i-th card
DeleteBackupCode(i, index) ==
    /\ ~isLoading
    /\ scanning = Undefined
    /\ i \in 1..Len(accounts)
    /\ index \in 1..Len(codesOf(accounts[i]))
    /\ saveAccounts(updateBackupCodes(accounts, accounts[i].id,
                                      withoutIndex(codesOf(accounts[i]), index)))
    /\ last' = Done("deleteCode", TRUE, "code", accounts[i].id, TRUE)
    /\ UNCHANGED <<isLoading, uuids, now, parseCall, secretCall, card, importing, scanning>>

\* SettingsMenu.handleClearAll
ClearAll ==
    /\ ~isLoading
    /\ scanning = Undefined
    /\ saveAccounts(clearAllAccounts)
    /\ last' = Done("clearAll", TRUE, "none", NoId, accounts # <<>>)
    /\ UNCHANGED <<isLoading, uuids, now, parseCall, secretCall, card, importing, scanning>>

\* the cards whose backup-codes dialog is opened: the first card stands for any
DialogCards == {1} \cap DOMAIN accounts

\* the files the suspended import can turn out to read
ChosenKnown == IF IsDefined(importing) THEN Get(importing).known ELSE ForeignId
ChosenFiles == Files(ChosenKnown)

Next ==
    \/ LoadEffect
    \/ Reload
    \/ \E form \in ManualForms : ManualSubmit(form)
    \/ StartScanning
    \/ StopScanning
    \/ \E url \in ScanUrls : ScanDecoded(url)
    \/ ImportChosen
    \/ \E file \in ChosenFiles : ImportRead(file)
    \/ \E i \in 1..Len(accounts) : DeleteAccount(i)
    \/ \E i \in DialogCards, newCode \in TypedCodes : AddBackupCode(i, newCode)
    \/ \E i \in DialogCards, index \in 1..2 : DeleteBackupCode(i, index)
    \/ ClearAll

Spec == Init /\ [][Next]_vars

(***************************************************************************)
(* The operations of useAccounts called directly, with any argument, from  *)
(* the render that is current.                                             *)
(***************************************************************************)
Ids == -1..MaxIds

\* Omit<Account, 'id' | 'createdAt'> values
Candidates ==
    {[issuer |-> Git, label |-> Bob, secret |-> Secret16, algorithm |-> SHA1,
      digits |-> Num(6), period |-> Num(30)]}

\* Partial<Account> values
Updates ==
    {[k \in {"issuer", "digits"} |-> IF k = "issuer" THEN Acme ELSE Num(8)],
     [k \in {"id"} |-> 0]}

\* Account values handed to importAccounts
ForeignAccounts ==
    {ForeignAccount, [ForeignAccount EXCEPT !.id = -1, !.backupCodes = Some(<<Code1>>)]}

CallAddAccount(candidate) ==
    /\ ~isLoading
    /\ uuids < MaxIds
    /\ Len(accounts) < MaxAccounts
    /\ saveAccounts(addAccount(accounts, candidate, uuids + 1, now))
    /\ uuids' = uuids + 1
    /\ last' = Done("add", TRUE, "call", uuids + 1, FALSE)
    /\ UNCHANGED <<isLoading, now, parseCall, secretCall, card, importing, scanning>>

CallRemoveAccount(id) ==
    /\ ~isLoading
    /\ saveAccounts(removeAccount(accounts, id))
    /\ last' = Done("remove", TRUE, "call", id, id \in IdsOf(accounts))
    /\ UNCHANGED <<isLoading, uuids, now, parseCall, secretCall, card, importing, scanning>>

CallUpdateAccount(id, updates) ==
    /\ ~isLoading
    /\ saveAccounts(updateAccount(accounts, id, updates))
    /\ last' = Done("update", TRUE, "call", id, id \in IdsOf(accounts))
    /\ UNCHANGED <<isLoading, uuids, now, parseCall, secretCall, card, importing, scanning>>

\* string[] values handed to updateBackupCodes
CodeLists == {<<>>, <<Code2, Code1>>}

CallUpdateBackupCodes(id, codes) ==
    /\ ~isLoading
    /\ saveAccounts(updateBackupCodes(accounts, id, codes))
    /\ last' = Done("updateBackupCodes", TRUE, "call", id, id \in IdsOf(accounts))
    /\ UNCHANGED <<isLoading, uuids, now, parseCall, secretCall, card, importing, scanning>>

CallImportAccounts(newAccounts) ==
    /\ ~isLoading
    /\ Len(accounts) + Len(newAccounts) <= MaxAccounts
    /\ saveAccounts(importAccounts(accounts, newAccounts))
    /\ last' = Done("importAccounts", TRUE, "call", NoId,
                    IdsOf(newAccounts) \cap IdsOf(accounts) # {})
    /\ UNCHANGED <<isLoading, uuids, now, parseCall, secretCall, card, importing, scanning>>

CallClearAllAccounts ==
    /\ ~isLoading
    /\ saveAccounts(clearAllAccounts)
    /\ last' = Done("clearAll", TRUE, "call", NoId, FALSE)
    /\ UNCHANGED <<isLoading, uuids, now, parseCall, secretCall, card, importing, scanning>>

NextApi ==
    \/ LoadEffect
    \/ Reload
    \/ \E candidate \in Candidates : CallAddAccount(candidate)
    \/ \E id \in Ids : CallRemoveAccount(id)
    \/ \E id \in Ids, updates \in Updates : CallUpdateAccount(id, updates)
    \/ \E newAccounts \in SeqsUpTo(ForeignAccounts, 2) : CallImportAccounts(newAccounts)
    \/ CallClearAllAccounts

SpecApi == Init /\ [][NextApi]_vars

\* updateBackupCodes called directly on lists built by addAccount and importAccounts
NextCodes ==
    \/ LoadEffect
    \/ Reload
    \/ \E candidate \in Candidates : CallAddAccount(candidate)
    \/ \E newAccounts \in SeqsUpTo(ForeignAccounts, 2) : CallImportAccounts(newAccounts)
    \/ \E id \in Ids, codes \in CodeLists : CallUpdateBackupCodes(id, codes)

SpecCodes == Init /\ [][NextCodes]_vars

(***************************************************************************)
(* parseOTPAuthURI called directly, once, on a URI drawn from ParseUrls.   *)
(***************************************************************************)
\* the characters of the decoded paths
PathChars == {"a", ":"}

\* url.pathname: "/" and a path without escapes, a path with an escaped colon,
\* a path with a malformed escape, no path at all
Pathnames ==
    {<<"/">> \o path : path \in SeqsUpTo(PathChars, MaxPathLen)}
        \cup {<<"/", "a", "%", "3", "A", "b", ":", "c">>, <<"/", "%">>, <<>>}

SecretName == <<"s", "e", "c", "r", "e", "t">>
IssuerName == <<"i", "s", "s", "u", "e", "r">>
AlgorithmName == <<"a", "l", "g", "o", "r", "i", "t", "h", "m">>
DigitsName == <<"d", "i", "g", "i", "t", "s">>
PeriodName == <<"p", "e", "r", "i", "o", "d">>

\* the pair of a query parameter that may be absent
Pair(name, value) == IF IsDefined(value) THEN << <<name, Get(value)>> >> ELSE <<>>

\* url.searchParams, each parameter absent, empty or with a value
ParamLists ==
    {Pair(SecretName, secret) \o Pair(IssuerName, issuer) \o Pair(AlgorithmName, algorithm)
        \o Pair(DigitsName, digits) \o Pair(PeriodName, period) :
        secret \in {Undefined, Some(<<>>), Some(Secret16)},
        issuer \in {Undefined, Some(<<>>), Some(Git)},
        algorithm \in {Undefined, Some(<<"s", "h", "a", "2", "5", "6">>)},
        digits \in {Undefined, Some(<<"8">>), Some(<<"1", "0">>), Some(<<"x">>)},
        period \in {Undefined, Some(<<"6", "0">>)}}

\* what `new URL(uri)` gives, or a URI the constructor refuses
Malformed ==
    [ok |-> FALSE, protocol |-> <<>>, host |-> <<>>, pathname |-> <<>>, params |-> <<>>]

ParseUrls ==
    {Malformed}
        \cup [ok : {TRUE},
              protocol : {OtpauthProtocol, <<"h", "t", "t", "p", ":">>},
              host : {<<"t", "o", "t", "p">>, <<"h", "o", "t", "p">>},
              pathname : Pathnames,
              params : ParamLists]

ParseUri(url) ==
    /\ parseCall = Undefined
    /\ parseCall' = Some([url |-> url, result |-> parseOTPAuthURI(url)])
    /\ UNCHANGED <<accounts, isLoading, storage, uuids, now, importing, scanning, last,
                   secretCall, card>>

NextParse == \E url \in ParseUrls : ParseUri(url)

SpecParse == Init /\ [][NextParse]_vars

(***************************************************************************)
(* validateSecret called directly, once, on a string drawn from            *)
(* SecretInputs.                                                           *)
(***************************************************************************)
MaxAffixLen == 2

\* the characters around the body of a secret: of the alphabet in both cases, a
\* digit outside it, padding and white space
SecretChars == {"A", "b", "7", "1", "=", " "}

\* at most one character, a run of one character about MinSecretLen long, and
\* at most MaxAffixLen characters
SecretInputs ==
    {head \o Repeat(c, n) \o tail :
        head \in SeqsUpTo(SecretChars, 1),
        c \in {"A", "="},
        n \in {0, MinSecretLen - 2, MinSecretLen - 1, MinSecretLen},
        tail \in SeqsUpTo(SecretChars, MaxAffixLen)}

ValidateSecret(secret) ==
    /\ secretCall = Undefined
    /\ secretCall' = Some([secret |-> secret, result |-> validateSecret(secret)])
    /\ UNCHANGED <<accounts, isLoading, storage, uuids, now, importing, scanning, last,
                   parseCall, card>>

NextSecret == \E secret \in SecretInputs : ValidateSecret(secret)

SpecSecret == Init /\ [][NextSecret]_vars

(***************************************************************************)
(* One AccountCard and its useTOTP hook: the card is mounted with an       *)
(* account, re-rendered with another one, and unmounted, while the clock   *)
(* runs and the interval of the hook fires.                                *)
(***************************************************************************)
MaxSeconds == 6

\* the clock stops half a second after MaxSeconds seconds
ClockEnd == MaxSeconds * Second + Second \div 2 + 1

\* a secret with a character outside the alphabet
BadSecret == Repeat("A", MinSecretLen - 1) \o <<"1">>

CardAccount(secret, period, codes) ==
    [issuer |-> Acme, label |-> Bob, secret |-> secret, algorithm |-> SHA1,
     digits |-> Num(DefaultDigits), period |-> Num(period), backupCodes |-> codes,
     id |-> 1, createdAt |-> 1]

\* the account prop of the card: periods of 2 and 3 seconds, a secret stored as
\* typed, a secret that does not decode, and an account that differs from another
\* in its backup codes only
CardAccounts ==
    {CardAccount(Secret16, 2, Undefined), CardAccount(Secret16, 2, Some(<<Code1>>)),
     CardAccount(SecretTyped, 3, Undefined), CardAccount(BadSecret, 2, Undefined)}

\* the time that passes between the clock read of totp.generate() and the clock
\* read of updateCode: none, or half a second
Drifts == {0, Second \div 2}

\* the effect of useTOTP run for `account` when `intervals` are set: updateCode()
\* at once, the clock read for the countdown `drift` after the one for the code,
\* then setInterval(updateCode, 1000), whose handle the cleanup keeps
RunEffect(account, intervals, drift) ==
    /\ now + drift <= ClockEnd
    /\ now' = now + drift
    /\ card' = [account |-> Some(account),
                code |-> generateCode(account, now),
                timeLeft |-> remaining(account.period, seconds(now + drift)),
                intervals |-> intervals \cup {[handle |-> newHandle(intervals),
                                               account |-> account]},
                cleanup |-> Some(newHandle(intervals))]

\* the card is rendered for the first time
Mount(account, drift) ==
    /\ ~IsDefined(card.account)
    /\ RunEffect(account, card.intervals, drift)
    /\ last' = Done("mount", TRUE, "card", account.id, FALSE)
    /\ UNCHANGED <<accounts, isLoading, storage, uuids, importing, scanning, parseCall,
                   secretCall>>

\* the card is rendered with another account object: generateCode changes, so
\* the cleanup of the last effect runs and the effect runs again
Change(account, drift) ==
    /\ IsDefined(card.account)
    /\ account # Get(card.account)
    /\ RunEffect(account, clearInterval(card.intervals, Get(card.cleanup)), drift)
    /\ last' = Done("change", TRUE, "card", account.id, TRUE)
    /\ UNCHANGED <<accounts, isLoading, storage, uuids, importing, scanning, parseCall,
                   secretCall>>

\* the card leaves the page: the cleanup of the last effect runs
Unmount ==
    /\ IsDefined(card.account)
    /\ card' = [NoCard EXCEPT
                    !.intervals = clearInterval(card.intervals, Get(card.cleanup))]
    /\ last' = Done("unmount", TRUE, "card", Get(card.account).id, TRUE)
    /\ UNCHANGED <<accounts, isLoading, storage, uuids, now, importing, scanning,
                   parseCall, secretCall>>

\* an interval fires: updateCode of the effect that set it; setCode and
\* setTimeLeft of a card that left the page change nothing (last.hit: the card
\* was on the page)
Fire(timer, drift) ==
    /\ timer \in card.intervals
    /\ now + drift <= ClockEnd
    /\ now' = now + drift
    /\ card' = IF IsDefined(card.account)
               THEN [card EXCEPT
                        !.code = generateCode(timer.account, now),
                        !.timeLeft = remaining(timer.account.period, seconds(now + drift))]
               ELSE card
    /\ last' = Done("tick", TRUE, "card", timer.account.id, IsDefined(card.account))
    /\ UNCHANGED <<accounts, isLoading, storage, uuids, importing, scanning, parseCall,
                   secretCall>>

\* half a second passes
Elapse ==
    /\ now + Second \div 2 <= ClockEnd
    /\ now' = now + Second \div 2
    /\ UNCHANGED <<accounts, isLoading, storage, uuids, importing, scanning, last,
                   parseCall, secretCall, card>>

\* no interval ever fires
NoTimers == {}

\* the intervals that can fire
Timers == card.intervals

NextTimer ==
    \/ \E account \in CardAccounts, drift \in Drifts : Mount(account, drift)
    \/ \E account \in CardAccounts, drift \in Drifts : Change(account, drift)
    \/ Unmount
    \/ \E timer \in Timers, drift \in Drifts : Fire(timer, drift)
    \/ Elapse

SpecTimer == Init /\ [][NextTimer]_vars

\* setInterval calls its callback again and again: an interval that is set and
\* whose callback would change what the card shows does fire
SpecTimerFair ==
    SpecTimer /\ WF_vars(\E timer \in Timers, drift \in Drifts : Fire(timer, drift))

(***************************************************************************)
(* Properties of the store (useAccounts) and of the bundle codec           *)
(* (SettingsMenu.handleImport).                                            *)
(***************************************************************************)
\* the handlers that write the store
MutationOps == {"manual", "scan", "import", "remove", "addCode", "deleteCode", "clearAll"}

\* a step in which the suspended import reads a file of the given kind
\* (ImportRead is the only action that ends an import and leaves the store loaded)
ImportCompletes(kind) ==
    /\ IsDefined(importing)
    /\ ~IsDefined(importing')
    /\ ~isLoading'
    /\ last'.kind = kind

C2_IdsAreUnique ==
    \A i, j \in 1..Len(accounts) : accounts[i].id = accounts[j].id => i = j

\* C3: reading a file one of whose accounts violates the schema (digits 11,
\* period out of range, an unknown algorithm, a string over its length limit, a
\* missing field) reports an error and changes neither the list nor the snapshot,
\* although the other account of the file is a valid one.
C3_BadAccountRejectsWholeBundle ==
    [][ImportCompletes("badAccount")
          => (~last'.ok /\ accounts' = accounts /\ storage' = storage)]_vars

\* such a file was read while the list held an account
C3_Witness ==
    /\ last.op = "import"
    /\ last.kind = "badAccount"
    /\ ~last.ok
    /\ accounts # <<>>

\* the accounts of a bundle, as the file holds them
fileAccounts(bundle) == bundle.o["accounts"].a

\* C4: the accounts a completed import adds, the last n accounts of the list for
\* a file of n accounts, have ids that are pairwise distinct, that are the id of
\* no account the store held before the import and that are none of the ids
\* found in the file.
C4_ImportedIdsAreFresh ==
    [][ImportCompletes("good") =>
          \A bundle \in GoodBundles(ChosenKnown) :
              ImportRead(Some(bundle)) =>
                  LET n == Len(fileAccounts(bundle))
                      first == Len(accounts') - n
                  IN  /\ first >= 0
                      /\ \A k \in 1..n :
                            /\ accounts'[first + k].id \notin IdsOf(accounts)
                            /\ accounts'[first + k].id \notin IdsOf(Get(importing).accounts)
                            /\ accounts'[first + k].id \notin FileIds(Some(bundle))
                            /\ \A m \in 1..n :
                                  accounts'[first + m].id = accounts'[first + k].id => m = k]_vars

\* a file holding the id of an account of the list was imported
C4_Witness ==
    /\ last.op = "import"
    /\ last.kind = "good"
    /\ last.ok
    /\ last.hit
    /\ Len(accounts) = 2

\* the k-th account of the file and an account of the list agree on issuer, label,
\* secret, algorithm, digits, period and backup codes
CarriesFields(acc, j) ==
    /\ acc.issuer = j.o["issuer"].s
    /\ acc.label = j.o["label"].s
    /\ acc.secret = j.o["secret"].s
    /\ acc.algorithm = j.o["algorithm"].s
    /\ acc.digits = [kind |-> "number", n |-> j.o["digits"].n]
    /\ acc.period = [kind |-> "number", n |-> j.o["period"].n]
    /\ IF "backupCodes" \in DOMAIN j.o
       THEN /\ IsDefined(acc.backupCodes)
            /\ Len(Get(acc.backupCodes)) = Len(j.o["backupCodes"].a)
            /\ \A c \in 1..Len(j.o["backupCodes"].a) :
                  Get(acc.backupCodes)[c] = j.o["backupCodes"].a[c].s
       ELSE ~IsDefined(acc.backupCodes)

\* C5: a completed import of a file of n accounts leaves the accounts the store
\* held in place and puts n accounts after them, the i-th carrying the fields of
\* the i-th account of the file.
C5_ImportAppendsBundleInOrder ==
    [][ImportCompletes("good") =>
          \A bundle \in GoodBundles(ChosenKnown) :
              ImportRead(Some(bundle)) =>
                  /\ Len(accounts') = Len(accounts) + Len(fileAccounts(bundle))
                  /\ \A i \in 1..Len(accounts) : accounts'[i] = accounts[i]
                  /\ \A k \in 1..Len(fileAccounts(bundle)) :
                        CarriesFields(accounts'[Len(accounts) + k],
                                      fileAccounts(bundle)[k])]_vars

\* C6: reading a file whose version is not the number 1 (2, the string "1", no
\* version at all) reports an error and changes neither the list nor the snapshot.
C6_OtherVersionIsRejected ==
    [][ImportCompletes("badVersion")
          => (~last'.ok /\ accounts' = accounts /\ storage' = storage)]_vars

\* such a file was read while the list held an account
C6_Witness ==
    /\ last.op = "import"
    /\ last.kind = "badVersion"
    /\ ~last.ok
    /\ accounts # <<>>

\* C7: removeAccount and updateAccount called with an id that no account of the
\* list has return normally and leave the list as it was.
C7_AbsentIdChangesNothing ==
    [][\A id \in Ids :
          (/\ id \notin IdsOf(accounts)
           /\ last'.id = id
           /\ \/ last'.op = "remove" /\ CallRemoveAccount(id)
              \/ last'.op = "update" /\ \E updates \in Updates : CallUpdateAccount(id, updates))
              => (last'.ok /\ accounts' = accounts)]_vars

\* updateAccount was called with an absent id on a list that holds an account
C7_Witness ==
    /\ last.op = "update"
    /\ ~last.hit
    /\ accounts # <<>>

\* the account an add puts last in the list carries the candidate's fields
AddPost(candidate) ==
    /\ Len(accounts') = Len(accounts) + 1
    /\ \A i \in 1..Len(accounts) : accounts'[i] = accounts[i]
    /\ accounts'[Len(accounts')].id \notin IdsOf(accounts)
    /\ \A k \in DOMAIN candidate : accounts'[Len(accounts')][k] = candidate[k]

\* C8: an add puts one account at the end of the list, with the candidate's
\* fields and an id no account of the store had, and leaves the accounts the
\* store held as they were.
C8_AddAppendsFreshAccount ==
    [][/\ (last'.op = "manual" /\ last'.ok /\ uuids' = uuids + 1)
            => \A form \in ManualForms : ManualSubmit(form) => AddPost(formCandidate(form))
       /\ (last'.op = "scan" /\ last'.ok /\ uuids' = uuids + 1 /\ IsDefined(scanning))
            => \A url \in ScanUrls :
                  ScanDecoded(url) => AddPost(Get(parseOTPAuthURI(url)))]_vars

\* the positions of the accounts of the list whose id is not id
Kept(id) == {i \in 1..Len(accounts) : accounts[i].id # id}

C10_UpdateMergesGivenFields ==
    [][\A id \in Ids, updates \in Updates :
          (/\ id \in IdsOf(accounts)
           /\ last'.op = "update"
           /\ last'.id = id
           /\ CallUpdateAccount(id, updates)) =>
              /\ Len(accounts') = Len(accounts)
              /\ \A i \in 1..Len(accounts) :
                    IF accounts[i].id = id
                    THEN \A k \in DOMAIN accounts[i] :
                            accounts'[i][k] = IF k \in DOMAIN updates
                                              THEN updates[k]
                                              ELSE accounts[i][k]
                    ELSE accounts'[i] = accounts[i]]_vars

\* updateAccount changed an account of a list of two
C10_Witness ==
    /\ last.op = "update"
    /\ last.hit
    /\ Len(accounts) = 2

\* C11: updateBackupCodes(id, codes) makes the backup codes of every account
\* with that id the list codes, element for element, keeps every other field
\* of such an account and leaves the accounts with another id as they were.
C11_BackupCodesReplacedWholesale ==
    [][\A id \in Ids, codes \in CodeLists :
          (/\ last'.op = "updateBackupCodes"
           /\ last'.id = id
           /\ CallUpdateBackupCodes(id, codes)) =>
              /\ Len(accounts') = Len(accounts)
              /\ \A i \in 1..Len(accounts) :
                    IF accounts[i].id = id
                    THEN /\ IsDefined(accounts'[i].backupCodes)
                         /\ Len(Get(accounts'[i].backupCodes)) = Len(codes)
                         /\ \A c \in 1..Len(codes) : Get(accounts'[i].backupCodes)[c] = codes[c]
                         /\ \A k \in DOMAIN accounts[i] \ {"backupCodes"} :
                               accounts'[i][k] = accounts[i][k]
                    ELSE accounts'[i] = accounts[i]]_vars

\* the codes of an account of a list of two were replaced by two codes
C11_Witness ==
    /\ last.op = "updateBackupCodes"
    /\ last.hit
    /\ Len(accounts) = 2
    /\ \E i \in 1..2 : accounts[i].id = last.id /\ accounts[i].backupCodes = Some(<<Code2, Code1>>)

\* C12: importAccounts(newAccounts), as handleImport calls it, leaves the accounts
\* the store held in place and puts the given accounts after them, in the given
\* order, each with the id and the createdAt it was given.
C12_ImportManyAppendsGiven ==
    [][ImportCompletes("good") =>
          \A bundle \in GoodBundles(ChosenKnown) :
              ImportRead(Some(bundle)) =>
                  LET given == importedAccounts(bundle, uuids, now)
                  IN  /\ Len(accounts') = Len(accounts) + Len(given)
                      /\ \A i \in 1..Len(accounts) : accounts'[i] = accounts[i]
                      /\ \A k \in 1..Len(given) : accounts'[Len(accounts) + k] = given[k]]_vars

\* C13: when clearAll has completed the list in memory is empty, the snapshot is
\* the serialization of the empty list, and a load of that snapshot gives the
\* empty list.
C13_ClearAllEmptiesListAndSnapshot ==
    last.op = "clearAll" =>
        /\ accounts = <<>>
        /\ storage = Some(JArr(<<>>))
        /\ parse(Get(storage)) = <<>>

\* clearAll completed on a list that held an account
C13_Witness ==
    /\ last.op = "clearAll"
    /\ last.hit
    /\ accounts = <<>>

\* C14: the mount effect completes, leaving the store loaded, and writes nothing:
\* the storage is what it was; with no snapshot, or one that does not parse, the
\* list is empty.
C14_LoadNeverWritesOrFails ==
    [][(isLoading /\ ~isLoading') =>
          /\ LoadEffect
          /\ storage' = storage
          /\ (storage \in {Undefined, Some(SyntaxError)} => accounts' = <<>>)]_vars

\* a load found a snapshot that does not parse
C14_Witness ==
    /\ last.op = "load"
    /\ ~isLoading
    /\ storage = Some(SyntaxError)
    /\ accounts = <<>>

\* C15: every account of the list has an algorithm among SHA1, SHA256 and
\* SHA512, a number of digits from 1 to 10 and a period from 1 to 300.
C15_FieldsInRange ==
    \A i \in 1..Len(accounts) :
        /\ accounts[i].algorithm \in Algorithms
        /\ accounts[i].digits.kind = "number"
        /\ accounts[i].digits.n \in MinDigits..MaxDigits
        /\ accounts[i].period.kind = "number"
        /\ accounts[i].period.n \in MinPeriod..MaxPeriod

\* C16: the secret of every account of the list is in canonical form: it has
\* no lower-case letter and no white space.
C16_SecretsAreCanonical ==
    \A i \in 1..Len(accounts) :
        accounts[i].secret = toUpperCase(stripWhitespace(accounts[i].secret))

(***************************************************************************)
(* Properties of parseOTPAuthURI.                                          *)
(***************************************************************************)
\* the URI of the call and what the call returned
CalledUrl == Get(parseCall).url
Result == Get(parseCall).result

\* the call returned a credential
Accepted == IsDefined(parseCall) /\ IsDefined(Result)

\* the URI has a query parameter of that name; the value of the parameter
HasParam(url, name) == \E i \in 1..Len(url.params) : url.params[i][1] = name
ParamValue(url, name) ==
    url.params[CHOOSE i \in 1..Len(url.params) : url.params[i][1] = name][2]

\* C17: parseOTPAuthURI returns null for a URI that is malformed, whose scheme is
\* not otpauth, whose host is not totp, or that has no secret parameter or an
\* empty one.
C17_BadUriGivesNull ==
    IsDefined(parseCall) =>
        ((\/ ~CalledUrl.ok
          \/ CalledUrl.protocol # <<"o", "t", "p", "a", "u", "t", "h", ":">>
          \/ CalledUrl.host # <<"t", "o", "t", "p">>
          \/ ~HasParam(CalledUrl, SecretName)
          \/ ParamValue(CalledUrl, SecretName) = <<>>)
            => ~IsDefined(Result))

\* an otpauth://totp URI with an empty secret was parsed
C17_Witness ==
    /\ IsDefined(parseCall)
    /\ CalledUrl.ok
    /\ CalledUrl.protocol = OtpauthProtocol
    /\ CalledUrl.host = TotpHost
    /\ HasParam(CalledUrl, SecretName)
    /\ ParamValue(CalledUrl, SecretName) = <<>>
    /\ ~IsDefined(Result)

\* the number a string of decimal digits denotes, read from its last digit
RECURSIVE DecimalValue(_)
DecimalValue(s) ==
    IF s = <<>> THEN 0
    ELSE 10 * DecimalValue(SubSeq(s, 1, Len(s) - 1))
            + (CHOOSE n \in 0..9 : DigitChars[n + 1] = s[Len(s)])

IsDecimal(s) == s # <<>> /\ \A i \in 1..Len(s) : \E n \in 1..10 : DigitChars[n] = s[i]

\* C18: an accepted URI without algorithm parameter gives SHA1, without digits
\* parameter gives 6 digits, without period parameter gives period 30; a digits
\* or period parameter that is a string of decimal digits gives its base-10 value.
C18_DefaultsAndDecimalValues ==
    Accepted =>
        /\ ~HasParam(CalledUrl, AlgorithmName) => Get(Result).algorithm = SHA1
        /\ ~HasParam(CalledUrl, DigitsName) => Get(Result).digits = [kind |-> "number", n |-> 6]
        /\ ~HasParam(CalledUrl, PeriodName) => Get(Result).period = [kind |-> "number", n |-> 30]
        /\ (HasParam(CalledUrl, DigitsName) /\ IsDecimal(ParamValue(CalledUrl, DigitsName)))
              => Get(Result).digits =
                    [kind |-> "number", n |-> DecimalValue(ParamValue(CalledUrl, DigitsName))]
        /\ (HasParam(CalledUrl, PeriodName) /\ IsDecimal(ParamValue(CalledUrl, PeriodName)))
              => Get(Result).period =
                    [kind |-> "number", n |-> DecimalValue(ParamValue(CalledUrl, PeriodName))]

\* a URI with digits=10 and neither algorithm nor period was accepted
C18_Witness ==
    /\ Accepted
    /\ ~HasParam(CalledUrl, AlgorithmName)
    /\ ~HasParam(CalledUrl, PeriodName)
    /\ HasParam(CalledUrl, DigitsName)
    /\ ParamValue(CalledUrl, DigitsName) = <<"1", "0">>
    /\ Get(Result).digits.n = 10

\* the decoded path of the URI of an accepted call
DecodedPath ==
    Get(decodeURIComponent(IF CalledUrl.pathname = <<>> THEN <<>> ELSE Tail(CalledUrl.pathname)))

\* the text before the first colon of the decoded path, empty without a colon
PathIssuer ==
    IF \E i \in 1..Len(DecodedPath) : DecodedPath[i] = ":"
    THEN LET first == CHOOSE i \in 1..Len(DecodedPath) :
                          /\ DecodedPath[i] = ":"
                          /\ \A j \in 1..(i - 1) : DecodedPath[j] # ":"
         IN  SubSeq(DecodedPath, 1, first - 1)
    ELSE <<>>

\* C19: for an accepted URI whose decoded path has a colon, issuer, colon and
\* label make up the path, the issuer holding no colon; without a colon the
\* label is the whole path and the issuer taken from the path is empty.  (The
\* issuer taken from the path shows in the result when there is no issuer
\* parameter, as itself or, when empty, as "Unknown".)
C19_PathSplitsAtFirstColon ==
    Accepted =>
        /\ IF \E i \in 1..Len(DecodedPath) : DecodedPath[i] = ":"
           THEN PathIssuer \o <<":">> \o Get(Result).label = DecodedPath
           ELSE Get(Result).label = DecodedPath
        /\ ~HasParam(CalledUrl, IssuerName)
              => Get(Result).issuer = IF PathIssuer # <<>> THEN PathIssuer ELSE Unknown

\* a URI whose path has two colons was accepted: the label keeps the second
C19_Witness ==
    /\ Accepted
    /\ ~HasParam(CalledUrl, IssuerName)
    /\ Get(Result).issuer = <<"a">>
    /\ \E i \in 1..Len(Get(Result).label) : Get(Result).label[i] = ":"

\* C20: the issuer of the result is the value of the issuer parameter whenever
\* the URI has that parameter, the issuer taken from the path otherwise, and
\* "Unknown" when the value so obtained is empty; it is never empty.
C20_IssuerParameterOverrides ==
    Accepted =>
        LET chosen == IF HasParam(CalledUrl, IssuerName)
                      THEN ParamValue(CalledUrl, IssuerName)
                      ELSE PathIssuer
        IN  /\ Get(Result).issuer = IF chosen # <<>> THEN chosen ELSE Unknown
            /\ Get(Result).issuer # <<>>

(***************************************************************************)
(* validateSecret.                                                         *)
(***************************************************************************)
\* the secret without white space and in upper case
Normalized(secret) == toUpperCase(stripWhitespace(secret))

\* characters of the alphabet, at least one, and nothing but "=" after the first "="
WellFormed(c) ==
    /\ c # <<>>
    /\ c[1] \in Base32Chars
    /\ \A i \in 1..Len(c) : c[i] \in Base32Chars \cup {"="}
    /\ \A i \in 1..Len(c) : \A j \in i..Len(c) : c[i] = "=" => c[j] = "="

\* C21: validateSecret answers with a boolean for every string; the answer is
\* true exactly when the string without white space and in upper case is made
\* of characters of A-Z2-7, at least one, followed by nothing but "=" padding and
\* has at least 16 characters; a string with one of 0, 1, 8, 9 and a string whose
\* normal form is shorter than 16 characters are refused.
C21_ValidSecretIsLongBase32 ==
    IsDefined(secretCall) =>
        LET secret == Get(secretCall).secret
            result == Get(secretCall).result
        IN  /\ result \in BOOLEAN
            /\ result <=> (WellFormed(Normalized(secret))
                            /\ Len(Normalized(secret)) >= MinSecretLen)
            /\ (\E i \in 1..Len(secret) : secret[i] \in {"0", "1", "8", "9"}) => ~result
            /\ Len(Normalized(secret)) < MinSecretLen => ~result

\* a secret typed in lower case, with white space and padding, is accepted
C21_Witness ==
    /\ IsDefined(secretCall)
    /\ Get(secretCall).result
    /\ {"b", " ", "="} \subseteq Range(Get(secretCall).secret)

(***************************************************************************)
(* useTOTP.                                                                *)
(***************************************************************************)
\* the card shows an account
Displayed == IsDefined(card.account)

\* a countdown of a period of p seconds read at second t
InRange(p, t, left) ==
    /\ left.kind = "number"
    /\ left.n \in 1..p
    /\ left.n = p <=> t % p = 0
    /\ left.n = 1 <=> t % p = p - 1

\* C22: every refresh of a card whose period is positive sets a countdown
\* between 1 and the period: the period when the second it read is a multiple of
\* the period, 1 in the last second of a period.
C22_CountdownInRange ==
    [][/\ \A account \in CardAccounts, drift \in Drifts :
            (Mount(account, drift) \/ Change(account, drift)) =>
                InRange(account.period.n, seconds(now'), card'.timeLeft)
       /\ \A timer \in Timers, drift \in Drifts :
            (Fire(timer, drift) /\ Displayed) =>
                InRange(timer.account.period.n, seconds(now'), card'.timeLeft)]_vars

\* a card refreshed at the second boundary of a period, later than the first one
C22_Witness ==
    /\ Displayed
    /\ seconds(now) > 0
    /\ seconds(now) % Get(card.account).period.n = 0
    /\ card.timeLeft = Get(card.account).period

\* the secret, without white space and in upper case, is characters of the
\* alphabet with "=" at the end only
Decodable(secret) ==
    LET c == Normalized(secret)
    IN  \A i \in 1..Len(c) :
            \/ c[i] \in Base32Chars
            \/ c[i] = "=" /\ \A j \in i..Len(c) : c[j] = "="

\* C23: a displayed card shows either a code or the placeholder '------'; it
\* shows the placeholder when the secret of its account does not decode, and a
\* code it shows was computed from the decoded secret, the algorithm and the
\* digits of its account.
C23_BadSecretShowsPlaceholder ==
    Displayed =>
        LET account == Get(card.account)
        IN  /\ card.code.shown \in {"digits", "------"}
            /\ ~Decodable(account.secret) => card.code = Placeholder
            /\ card.code.shown = "digits" =>
                  /\ Decodable(account.secret)
                  /\ card.code.key = withoutPadding(Normalized(account.secret))
                  /\ card.code.algorithm = account.algorithm
                  /\ card.code.digits = account.digits

\* a card whose secret does not decode shows the placeholder half a second or
\* more after it was mounted
C23_Witness ==
    /\ Displayed
    /\ ~Decodable(Get(card.account).secret)
    /\ card.code = Placeholder
    /\ now > 1

\* C25: a card on the page has exactly one interval set, the one of the effect
\* run for the account it shows (the interval of an earlier account or period
\* was cleared before this one was set); a card that left the page has none, and
\* no interval callback runs for a card that is not on the page.
C25_OneIntervalPerCard ==
    /\ Cardinality(card.intervals) <= 1
    /\ Displayed =>
          card.intervals = {[handle |-> Get(card.cleanup), account |-> Get(card.account)]}
    /\ ~Displayed => card.intervals = {}
    /\ last.op = "tick" => last.hit

\* a card was re-rendered with an account of another period and has one interval
C25_Witness ==
    /\ last.op = "change"
    /\ Get(card.account).period = Num(3)
    /\ Cardinality(card.intervals) = 1

\* the card shows a code that is not the code of the counter of this instant
Stale == Displayed /\ card.code # generateCode(Get(card.account), now)

\* C26: the effect computes the code of the account at once when the card is
\* rendered for the first time or with another account, and, the interval
\* firing again and again, a card that shows the code of a counter that has
\* passed comes to show the code of the current counter while it is displayed:
\* every callback of the interval sets the code of the counter of the instant
\* it reads the clock.
C26_CodeCatchesUp ==
    /\ [][\A account \in CardAccounts, drift \in Drifts :
            (Mount(account, drift) \/ Change(account, drift)) =>
                card'.code = generateCode(account, now)]_vars
    /\ [][\A timer \in Timers, drift \in Drifts :
            (Fire(timer, drift) /\ Displayed) =>
                card'.code = generateCode(Get(card.account), now)]_vars
    /\ Stale ~> ~Stale

\* a period boundary has passed since the card was refreshed
C26_Witness ==
    /\ Stale
    /\ card.code.shown = "digits"
    /\ card.code.counter < seconds(now) \div Get(card.account).period.n

\* the code and the countdown of `account` both belong to one second t that is
\* not before the first clock read of the refresh and not after its last
OneInstant(account, code, left) ==
    \E t \in seconds(now)..seconds(now') :
        /\ code = generateCode(account, t * Second)
        /\ left = remaining(account.period, t)

\* C30: every refresh sets a code and a countdown that describe one instant t
\* of the refresh: the code of counter floor(t / period) and the countdown
\* period - (t mod period).
C30_CodeAndCountdownOfOneInstant ==
    [][/\ \A account \in CardAccounts, drift \in Drifts :
            (Mount(account, drift) \/ Change(account, drift)) =>
                OneInstant(account, card'.code, card'.timeLeft)
       /\ \A timer \in Timers, drift \in Drifts :
            (Fire(timer, drift) /\ Displayed) =>
                OneInstant(timer.account, card'.code, card'.timeLeft)]_vars

(***************************************************************************)
(* Interleavings of the store operations.                                  *)
(***************************************************************************)
\* C27: a handler that adds accounts (a scan, a manual entry, an import that
\* was reading its file meanwhile) finds in the list whatever the operations
\* completed before it left there: the list it leaves begins with the whole
\* list as it was when the handler ran, so no add, remove, change of backup
\* codes or clear that completed earlier is undone.
C27_NoUpdateLost ==
    [][uuids' > uuids =>
          /\ Len(accounts') > Len(accounts)
          /\ SubSeq(accounts', 1, Len(accounts)) = accounts]_vars

(***************************************************************************)
(* Export followed by import.                                              *)
(***************************************************************************)
\* the fields an import carries over
CarriedKeys == {"issuer", "label", "secret", "algorithm", "digits", "period", "backupCodes"}

\* the file handleExport writes for accs is accepted by handleImport and gives
\* as many accounts, each with the carried fields of the exported one
RoundTrips(accs) ==
    LET file == handleExport(accs, now)
    IN  /\ IsDefined(file)
        /\ backupSchema(Get(file))
        /\ LET imported == importedAccounts(Get(file), uuids, now)
           IN  /\ Len(imported) = Len(accs)
               /\ \A i \in 1..Len(accs) : \A k \in CarriedKeys : imported[i][k] = accs[i][k]

\* C29: whenever the loaded store holds an account, the file written by export
\* is accepted by import, and the accounts import makes of it equal the
\* exported ones in every field but id and createdAt.
C29_ExportImportRoundTrip == (~isLoading /\ accounts # <<>>) => RoundTrips(accounts)

====
